---- MODULE Spec2Model ----
\* McDonald's menu API (src/main.py): the FastAPI route handlers over one
\* "menuitem" collection of a document store.
\*
\* Modelling conventions
\*   - prices are kept in cents (5.99 -> 599): TLA+ has no floating point;
\*   - Python's None is the string "None";
\*   - an error text str(e) is a sequence of one-character strings, so that the
\*     slice str(e)[:50] of the diagnostic route is computed, not assumed;
\*   - handlers are plain `def` functions, which the host framework runs on worker
\*     threads: two requests interleave at the granularity of store calls.
\*     A handler with at most one store call is one action; seed_menu, which
\*     makes one count call and then one insert call per sample, is one action
\*     per store call.
EXTENDS Integers, Sequences, FiniteSets, TLC

VARIABLES
    db,        \* TRUE iff the imported store handle `db` is not None
    env,       \* which of DATABASE_URL / DATABASE_NAME are set in the environment
    coll,      \* the "menuitem" collection: documents in store-native (insertion) order
    pc,        \* per request slot: "idle" or "seeding" (inside seed_menu's insert loop)
    idx,       \* per request slot: position of seed_menu's `for s in samples` loop
    existing,  \* per request slot: seed_menu's local `existing`
    req,       \* per request slot: the request being served / last served
    resp,      \* per request slot: the HTTP response of the last completed request
    err,       \* per request slot: the error raised by a store call of that request, or NoErr
    calls,     \* per request slot: store calls made by that request
    created,   \* number of documents inserted through POST /api/menu
    failures   \* number of store calls that have raised

vars == <<db, env, coll, pc, idx, existing, req, resp, err, calls, created, failures>>

\* ---------------------------------------------------------------- bounds
MaxCreates  == 1
MaxFailures == 1

\* Request slots. A handler with at most one store call takes effect in one
\* step, so such requests interleave as if served one after the other and one
\* slot serves them all; seed_menu spans several store calls, and two slots
\* serve two overlapping seed requests.
Callers == {"c"}
Seeders == {"s1", "s2"}
Procs   == Callers \cup Seeders

\* Optional[T]: <<>> is None, <<v>> is the value v.
None    == <<>>
Some(v) == <<v>>
NoErr   == <<>>

\* Error texts a store call may raise with: a short one and one longer than
\* the 50 characters the diagnostic route keeps.
ShortErr == <<"d", "o", "w", "n">>
LongErr  == [i \in 1..52 |-> IF i <= 50 THEN "x" ELSE "y"]
ErrTexts == {ShortErr, LongErr}
Outcomes == {NoErr} \cup ErrTexts

\* ---------------------------------------------------------------- data model
Fields   == {"name", "description", "price", "category", "image",
             "is_featured", "calories", "spicy_level"}

\* class MenuItemCreate: the fields without a default are required.
Required == {"name", "price", "category"}

\* Faulty variant: is_featured defaulting to True.
DefaultFeatured(f) == IF f = "is_featured" THEN TRUE ELSE None

Default(f) == IF f = "is_featured" THEN FALSE ELSE None

\* Faulty variant: price declared Optional, so a body without it is accepted.
MissingLax(body) == (Required \ {"price"}) \ DOMAIN body

\* Framework validation of a request body against MenuItemCreate: the required
\* fields the body lacks (empty iff the body is accepted).
Missing(body) == Required \ DOMAIN body

\* MenuItemCreate(**body).dict(): every field, defaults filled in.
MenuItemCreate(body) ==
    [f \in Fields |-> IF f \in DOMAIN body THEN body[f] ELSE Default(f)]

\* seed_menu's `samples`.
samples ==
    << [name |-> "Big Mac",
        description |-> Some("Two 100% beef patties, special sauce, lettuce, cheese, pickles, onions on a sesame seed bun."),
        price |-> 599, category |-> "Burgers",
        image |-> Some("https://images.unsplash.com/photo-1550547660-d9450f859349?w=1200"),
        is_featured |-> TRUE, calories |-> Some(550), spicy_level |-> Some(0)],
       [name |-> "McChicken",
        description |-> Some("Crispy chicken topped with shredded lettuce and mayonnaise on a toasted bun."),
        price |-> 349, category |-> "Chicken",
        image |-> Some("https://images.unsplash.com/photo-1561758033-d89a9ad46330?w=1200"),
        is_featured |-> FALSE, calories |-> Some(400), spicy_level |-> Some(0)],
       [name |-> "World-Famous Fries",
        description |-> Some("Golden, crispy and perfectly salted fries."),
        price |-> 229, category |-> "Sides",
        image |-> Some("https://images.unsplash.com/photo-1550547660-31633d40d0a0?w=1200"),
        is_featured |-> TRUE, calories |-> Some(230), spicy_level |-> Some(0)],
       [name |-> "Spicy McNuggets (10 pc)",
        description |-> Some("Tender, juicy chicken with a spicy tempura coating."),
        price |-> 499, category |-> "Chicken",
        image |-> Some("https://images.unsplash.com/photo-1608039829579-8790f8d5a1f7?w=1200"),
        is_featured |-> TRUE, calories |-> Some(420), spicy_level |-> Some(3)],
       [name |-> "McFlurry Oreo",
        description |-> Some("Vanilla soft serve blended with Oreo cookie pieces."),
        price |-> 299, category |-> "Desserts",
        image |-> Some("https://images.unsplash.com/photo-1461009683693-342af2f2d6ce?w=1200"),
        is_featured |-> FALSE, calories |-> Some(510), spicy_level |-> Some(0)],
       [name |-> "Caramel Iced Coffee",
        description |-> Some("Premium roast coffee over ice with caramel flavor and cream."),
        price |-> 249, category |-> "Drinks",
        image |-> Some("https://images.unsplash.com/photo-1511920170033-f8396924c348?w=1200"),
        is_featured |-> FALSE, calories |-> Some(180), spicy_level |-> Some(0)] >>

\* ---------------------------------------------------------------- store adapter
\* (database.py and schemas.py: modelled from the specification's contract)

\* create_document(collection, record): appends the record under a fresh
\* identifier and returns the identifier as a string.
create_document(c, data) ==
    LET oid == Len(c) + 1
        doc == [f \in Fields \cup {"_id"} |-> IF f = "_id" THEN oid ELSE data[f]]
    IN  [coll |-> Append(c, doc), id |-> ToString(oid)]

Matches(doc, filter) == \A k \in DOMAIN filter : doc[k] = filter[k]

Take(s, n) == IF Len(s) <= n THEN s ELSE SubSeq(s, 1, n)

\* get_documents(collection, filter, limit): up to `limit` documents matching
\* the exact-match filter, in store order.
get_documents(c, filter, limit) ==
    Take(SelectSeq(c, LAMBDA doc : Matches(doc, filter)), limit)

\* MenuItem(**doc): the document validated against the MenuItem shape.
MenuItem(doc) == [f \in Fields |-> doc[f]]

\* ---------------------------------------------------------------- handlers' pieces
\* Python truthiness of an Optional[str]: None and "" are falsy.
Truthy(category) == category /= None /\ category[1] /= ""

\* list_menu's filter_dict.
filter_dict(category, featured) ==
    [k \in (IF Truthy(category) THEN {"category"} ELSE {})
            \cup (IF featured /= None THEN {"is_featured"} ELSE {})
        |-> IF k = "category" THEN category[1] ELSE featured[1]]

\* list_menu's result: each document without its "_id", as a MenuItem.
Result(items) == [i \in 1..Len(items) |-> MenuItem(items[i])]

\* Faulty variant: the unavailable store reported as 503.
NotConfiguredAs == [status |-> 503, detail |-> "Database not configured"]

\* raise HTTPException(status_code=500, detail="Database not configured")
NotConfigured == [status |-> 500, detail |-> "Database not configured"]

\* raise HTTPException(status_code=500, detail=str(e))
StoreError(e) == [status |-> 500, detail |-> e]

\* An exception that leaves a handler uncaught: the framework answers with
\* its generic 500 page, which does not carry the error's text.
Unhandled == [status |-> 500, text |-> "Internal Server Error"]

\* The framework's answer to a body that fails validation.
Unprocessable(missing) == [status |-> 422, missing |-> missing]

\* Faulty variant: `if existing > 1`.
SeedExistsMany(n) == n > 1

\* seed_menu's `if existing > 0`.
SeedExists(n) == n > 0

\* Faulty variant: the loop stopping one sample short.
LoopDoneEarly(i) == i >= Len(samples)

\* seed_menu's loop `for s in samples` is over once every sample was visited.
LoopDone(i) == i > Len(samples)

\* Faulty variant: the pass replaces the collection's content by the sample.
seed_insert_replace(c, i) == create_document(<<>>, samples[i]).coll

\* Variant: the pass skips a sample whose name the collection already holds.
seed_insert_once(c, i) ==
    IF \E k \in 1..Len(c) : c[k]["name"] = samples[i]["name"]
      THEN c
      ELSE create_document(c, samples[i]).coll

\* Faulty variant: the samples inserted last to first.
seed_insert_reversed(c, i) == create_document(c, samples[Len(samples) + 1 - i]).coll

\* One pass of the loop body: create_document("menuitem", s).
seed_insert(c, i) == create_document(c, samples[i]).coll

\* str(e)[:50]
Trunc(e) == Take(e, 50)

\* collections[:10]
FirstTen(names) == Take(names, 10)

\* list_menu's default for `limit`.
DefaultLimit == 100

\* ---------------------------------------------------------------- inputs
EnvVars    == {"DATABASE_URL", "DATABASE_NAME"}
Categories == {None, Some(""), Some("Chicken")}
Featureds  == {None, Some(TRUE), Some(FALSE)}
Limits     == {2, DefaultLimit}

BodyTest    == [name |-> "Test", price |-> 100, category |-> "Test"]
BodyWings   == [name |-> "Hot Wings", price |-> 399, category |-> "Chicken",
                is_featured |-> TRUE, spicy_level |-> Some(2)]
BodyNoPrice == [name |-> "Test", category |-> "Test"]
BodyNoName  == [price |-> 100, category |-> "Test", is_featured |-> TRUE]
BodyNoCat   == [name |-> "Test", price |-> 100]
Bodies      == {BodyTest, BodyWings, BodyNoPrice, BodyNoName, BodyNoCat}

NoResponse == [status |-> 0]
NoRequest  == [route |-> "none"]

\* ---------------------------------------------------------------- state machine
Init ==
    /\ db \in BOOLEAN
    /\ env \in [EnvVars -> BOOLEAN]
    /\ db => \A v \in EnvVars : env[v]
    /\ coll = <<>>
    /\ pc = [p \in Procs |-> "idle"]
    /\ idx = [p \in Procs |-> 0]
    /\ existing = [p \in Procs |-> 0]
    /\ req = [p \in Procs |-> NoRequest]
    /\ resp = [p \in Procs |-> NoResponse]
    /\ err = [p \in Procs |-> NoErr]
    /\ calls = [p \in Procs |-> 0]
    /\ created = 0
    /\ failures = 0

\* A store call raises only while the failure budget lasts.
MayRaise(e) == e /= NoErr => (db /\ failures < MaxFailures)

Raised(e) == failures' = IF e /= NoErr THEN failures + 1 ELSE failures

\* A handler that runs to its end in one step: request r is answered with
\* `response` after n store calls, the last of which raised e (or NoErr).
Reply(p, r, response, e, n) ==
    /\ req' = [req EXCEPT ![p] = r]
    /\ resp' = [resp EXCEPT ![p] = response]
    /\ err' = [err EXCEPT ![p] = e]
    /\ calls' = [calls EXCEPT ![p] = n]
    /\ pc' = [pc EXCEPT ![p] = "idle"]

\* A fresh handler call has fresh locals.
NoLocals(p) ==
    /\ idx' = [idx EXCEPT ![p] = 0]
    /\ existing' = [existing EXCEPT ![p] = 0]

\* GET /
read_root(p) ==
    /\ pc[p] = "idle"
    /\ Reply(p, [route |-> "root"],
             [status |-> 200, message |-> "McDonald's API is running"], NoErr, 0)
    /\ NoLocals(p)
    /\ UNCHANGED <<db, env, coll, created, failures>>

\* GET /api/hello
hello(p) ==
    /\ pc[p] = "idle"
    /\ Reply(p, [route |-> "hello"],
             [status |-> 200, message |-> "Welcome to McDonald's API"], NoErr, 0)
    /\ NoLocals(p)
    /\ UNCHANGED <<db, env, coll, created, failures>>

\* GET /api/menu
list_menu(p, category, featured, limit, e) ==
    LET r == [route |-> "list", category |-> category, featured |-> featured,
              limit |-> limit]
    IN  /\ pc[p] = "idle"
        /\ MayRaise(e)
        /\ IF ~db
              THEN Reply(p, r, NotConfigured, NoErr, 0)
              ELSE IF e /= NoErr
                     THEN Reply(p, r, Unhandled, e, 1)
                     ELSE Reply(p, r,
                                [status |-> 200,
                                 items |-> Result(get_documents(
                                     coll, filter_dict(category, featured), limit))],
                                NoErr, 1)
        /\ Raised(e)
        /\ NoLocals(p)
        /\ UNCHANGED <<db, env, coll, created>>

\* POST /api/menu
create_menu_item(p, body, e) ==
    LET r   == [route |-> "create", body |-> body]
        ins == create_document(coll, MenuItemCreate(body))
    IN  /\ pc[p] = "idle"
        /\ Missing(body) /= {} => e = NoErr
        /\ MayRaise(e)
        /\ (Missing(body) = {} /\ db /\ e = NoErr) => created < MaxCreates
        /\ IF Missing(body) /= {}
              THEN /\ Reply(p, r, Unprocessable(Missing(body)), NoErr, 0)
                   /\ UNCHANGED <<coll, created>>
              ELSE IF ~db
                     THEN /\ Reply(p, r, NotConfigured, NoErr, 0)
                          /\ UNCHANGED <<coll, created>>
                     ELSE IF e /= NoErr
                            THEN /\ Reply(p, r, StoreError(e), e, 1)
                                 /\ UNCHANGED <<coll, created>>
                            ELSE /\ Reply(p, r, [status |-> 201, id |-> ins.id], NoErr, 1)
                                 /\ coll' = ins.coll
                                 /\ created' = created + 1
        /\ Raised(e)
        /\ NoLocals(p)
        /\ UNCHANGED <<db, env>>

\* POST /api/menu/seed, up to and including the count call and the test on it.
seed_menu(p, e) ==
    LET r == [route |-> "seed"]
    IN  /\ pc[p] = "idle"
        /\ MayRaise(e)
        /\ IF ~db
              THEN Reply(p, r, NotConfigured, NoErr, 0) /\ NoLocals(p)
              ELSE IF e /= NoErr
                     THEN Reply(p, r, Unhandled, e, 1) /\ NoLocals(p)
                     ELSE /\ existing' = [existing EXCEPT ![p] = Len(coll)]
                          /\ IF SeedExists(Len(coll))
                                THEN /\ Reply(p, r, [status |-> 200, body |-> "exists",
                                                     count |-> Len(coll)], NoErr, 1)
                                     /\ idx' = [idx EXCEPT ![p] = 0]
                                ELSE /\ req' = [req EXCEPT ![p] = r]
                                     /\ resp' = [resp EXCEPT ![p] = NoResponse]
                                     /\ err' = [err EXCEPT ![p] = NoErr]
                                     /\ calls' = [calls EXCEPT ![p] = 1]
                                     /\ pc' = [pc EXCEPT ![p] = "seeding"]
                                     /\ idx' = [idx EXCEPT ![p] = 1]
        /\ Raised(e)
        /\ UNCHANGED <<db, env, coll, created>>

\* POST /api/menu/seed, one pass of `for s in samples`, and the return that
\* follows the last pass.
seed_loop(p, e) ==
    /\ pc[p] = "seeding"
    /\ MayRaise(e)
    /\ calls' = [calls EXCEPT ![p] = calls[p] + 1]
    /\ IF e /= NoErr
          THEN /\ resp' = [resp EXCEPT ![p] = Unhandled]
               /\ err' = [err EXCEPT ![p] = e]
               /\ pc' = [pc EXCEPT ![p] = "idle"]
               /\ UNCHANGED <<coll, idx>>
          ELSE /\ coll' = seed_insert(coll, idx[p])
               /\ idx' = [idx EXCEPT ![p] = idx[p] + 1]
               /\ IF LoopDone(idx[p] + 1)
                     THEN /\ resp' = [resp EXCEPT ![p] =
                                         [status |-> 200, body |-> "seeded",
                                          count |-> Len(samples)]]
                          /\ pc' = [pc EXCEPT ![p] = "idle"]
                     ELSE UNCHANGED <<resp, pc>>
               /\ UNCHANGED err
    /\ Raised(e)
    /\ UNCHANGED <<db, env, existing, req, created>>

\* GET /test (the status strings are kept without their pictographs)
test_database(p, e) ==
    LET names == IF Len(coll) > 0 THEN <<"menuitem">> ELSE <<>>
        base  == [status |-> 200,
                  backend |-> "Running",
                  database_url |-> IF env["DATABASE_URL"] THEN "Set" ELSE "Not Set",
                  database_name |-> IF env["DATABASE_NAME"] THEN "Set" ELSE "Not Set"]
        rest  == IF ~db
                   THEN [database |-> "Available but not initialized",
                         error |-> NoErr,
                         connection_status |-> "Not Connected",
                         collections |-> <<>>]
                   ELSE IF e /= NoErr
                          THEN [database |-> "Connected but Error: ",
                                error |-> Trunc(e),
                                connection_status |-> "Connected",
                                collections |-> <<>>]
                          ELSE [database |-> "Connected & Working",
                                error |-> NoErr,
                                connection_status |-> "Connected",
                                collections |-> FirstTen(names)]
    IN  /\ pc[p] = "idle"
        /\ MayRaise(e)
        /\ Reply(p, [route |-> "test"], base @@ rest, e, IF db THEN 1 ELSE 0)
        /\ Raised(e)
        /\ NoLocals(p)
        /\ UNCHANGED <<db, env, coll, created>>

Idle(p) == \A q \in Procs \ {p} : pc[q] = "idle"

\* Requests served one after the other: a request starts, and goes on, only
\* while no other is in flight.
SeqNext ==
    \/ \E p \in Callers : Idle(p) /\ read_root(p)
    \/ \E p \in Callers : Idle(p) /\ hello(p)
    \/ \E p \in Callers, c \in Categories, f \in Featureds, l \in Limits, e \in Outcomes :
           Idle(p) /\ list_menu(p, c, f, l, e)
    \/ \E p \in Callers, b \in Bodies, e \in Outcomes :
           Idle(p) /\ create_menu_item(p, b, e)
    \/ \E p \in Callers, e \in Outcomes : Idle(p) /\ test_database(p, e)
    \/ \E p \in Seeders, e \in Outcomes : Idle(p) /\ seed_menu(p, e)
    \/ \E p \in Seeders, e \in Outcomes : Idle(p) /\ seed_loop(p, e)

SeqSpec == Init /\ [][SeqNext]_vars

\* Requests served concurrently, store calls succeeding: the requests that
\* write to the collection, two of them overlapping seed requests.
ConcNext ==
    \/ \E p \in Callers, b \in {BodyTest, BodyNoPrice} : create_menu_item(p, b, NoErr)
    \/ \E p \in Seeders : seed_menu(p, NoErr)
    \/ \E p \in Seeders : seed_loop(p, NoErr)

ConcSpec == Init /\ [][ConcNext]_vars

\* ---------------------------------------------------------------- properties
\* Slot p took the step: only p's handler changes p's part of the state.
Stepped(p) ==
    <<pc[p], idx[p], existing[p], req[p], resp[p], err[p], calls[p]>>'
        /= <<pc[p], idx[p], existing[p], req[p], resp[p], err[p], calls[p]>>

Seeded(n) == [status |-> 200, body |-> "seeded", count |-> n]
Exists(n) == [status |-> 200, body |-> "exists", count |-> n]

UnfilteredList ==
    [route |-> "list", category |-> None, featured |-> None, limit |-> DefaultLimit]

\* C1: with the store available, no store call failing and nothing created
\* through POST /api/menu, requests served one after the other: a seed request
\* on the empty collection goes on to insert and ends reporting "seeded" with
\* count 6, the collection then holding 6 records; an unfiltered GET /api/menu
\* on the seeded collection returns exactly 6 items; every seed request on the
\* seeded collection reports "exists" with count 6 and leaves the collection
\* as it is.
C1_SeedOnce ==
    [][ (db /\ created' = 0 /\ failures' = 0) =>
          /\ \A p \in Seeders :
                /\ (pc[p] = "seeding" /\ pc'[p] = "idle") =>
                      /\ existing[p] = 0
                      /\ resp'[p] = Seeded(6)
                      /\ Len(coll') = 6
                /\ (Stepped(p) /\ pc[p] = "idle" /\ Len(coll) = 0) =>
                      pc'[p] = "seeding"
                /\ (Stepped(p) /\ pc[p] = "idle" /\ Len(coll) > 0) =>
                      /\ resp'[p] = Exists(6)
                      /\ pc'[p] = "idle"
                      /\ coll' = coll
                      /\ Len(coll) = 6
          /\ \A p \in Callers :
                (Stepped(p) /\ req'[p] = UnfilteredList /\ Len(coll) > 0) =>
                      /\ resp'[p].status = 200
                      /\ Len(resp'[p].items) = 6 ]_vars

\* C1 happens: one slot was answered "seeded", the other then "exists", and
\* an unfiltered listing returned the six items.
C1_Witness ==
    /\ db /\ created = 0 /\ failures = 0
    /\ resp["s1"] = Seeded(6)
    /\ resp["s2"] = Exists(6)
    /\ req["c"] = UnfilteredList
    /\ resp["c"].status = 200
    /\ Len(resp["c"].items) = 6

\* C2: a seed request served while the collection holds n >= 1 records, its
\* count call succeeding, inserts nothing: the collection is unchanged, the
\* request made the count call alone and is answered "exists" with count n.
C2_SeedExists ==
    [][ \A p \in Seeders :
          (Stepped(p) /\ pc[p] = "idle" /\ db /\ Len(coll) >= 1
              /\ failures' = failures) =>
                /\ coll' = coll
                /\ pc'[p] = "idle"
                /\ resp'[p] = Exists(Len(coll))
                /\ calls'[p] = 1 ]_vars

\* C2 happens: a seed request was answered "exists" on a collection holding
\* the one record POST /api/menu created.
C2_Witness ==
    /\ created = 1
    /\ Len(coll) = 1
    /\ \E p \in Seeders : pc[p] = "idle" /\ resp[p] = Exists(1)

\* A request of slot p was answered with the listing `items`.
Listed(p) == req[p].route = "list" /\ resp[p].status = 200

\* C3: every item GET /api/menu returns matches each parameter the request
\* provided: its category equals a provided category (the empty string
\* included), its is_featured equals a provided featured.
C3_ExactMatch ==
    \A p \in Callers :
        Listed(p) =>
            \A i \in 1..Len(resp[p].items) :
                /\ req[p].category /= None =>
                      resp[p].items[i].category = req[p].category[1]
                /\ req[p].featured /= None =>
                      resp[p].items[i].is_featured = req[p].featured[1]

StoreRoutes == {"list", "create", "seed"}

\* C4: while the store is unavailable, the collection is untouched, no
\* request makes a store call, every request that reaches the handler of
\* GET /api/menu, POST /api/menu or POST /api/menu/seed is answered 500
\* "Database not configured", and GET /test is answered 200 with the
\* unavailability as its status string.
C4_Unavailable ==
    ~db =>
        /\ coll = <<>>
        /\ \A p \in Procs :
             /\ calls[p] = 0
             /\ pc[p] = "idle"
             /\ (req[p].route = "list" \/ req[p].route = "seed") =>
                   resp[p] = [status |-> 500, detail |-> "Database not configured"]
             /\ (req[p].route = "create" /\ Required \subseteq DOMAIN req[p].body) =>
                   resp[p] = [status |-> 500, detail |-> "Database not configured"]
             /\ req[p].route = "test" =>
                   /\ resp[p].status = 200
                   /\ resp[p].database = "Available but not initialized"
                   /\ resp[p].connection_status = "Not Connected"

\* C4 happens: with the store unavailable a seed request and a create
\* request were answered 500.
C4_Witness ==
    /\ ~db
    /\ req["s1"].route = "seed" /\ resp["s1"].status = 500
    /\ req["c"].route = "create" /\ resp["c"].status = 500

\* C5: a request to a store route whose store call raised is answered 500
\* with the error's text.
C5_ErrorText ==
    \A p \in Procs :
        (pc[p] = "idle" /\ req[p].route \in StoreRoutes /\ err[p] /= NoErr) =>
            resp[p] = [status |-> 500, detail |-> err[p]]

\* Names under which a body that omits is_featured is created.
OmittedNames ==
    {b.name : b \in {x \in Bodies : Required \subseteq DOMAIN x
                                      /\ "is_featured" \notin DOMAIN x}}

\* C6: a POST /api/menu whose body has the required fields and omits
\* is_featured, the insert succeeding, is answered 201 with the new record's
\* identifier as a string, and appends exactly one record, whose is_featured is
\* false; every listing shows such a record with is_featured false, a listing
\* with featured=true never holds it, and a listing with featured=false, no
\* category and a limit not below the collection's size holds it.
C6_DefaultFeatured ==
    [][ \A p \in Callers : Stepped(p) =>
          /\ (/\ req'[p].route = "create"
               /\ Required \subseteq DOMAIN req'[p].body
               /\ "is_featured" \notin DOMAIN req'[p].body
               /\ db /\ failures' = failures) =>
                 /\ resp'[p].status = 201
                 /\ Len(coll') = Len(coll) + 1
                 /\ SubSeq(coll', 1, Len(coll)) = coll
                 /\ resp'[p].id = ToString(coll'[Len(coll')]["_id"])
                 /\ coll'[Len(coll')]["name"] = req'[p].body.name
                 /\ coll'[Len(coll')]["is_featured"] = FALSE
          /\ (req'[p].route = "list" /\ resp'[p].status = 200) =>
                 /\ \A i \in 1..Len(resp'[p].items) :
                       resp'[p].items[i].name \in OmittedNames =>
                           /\ resp'[p].items[i].is_featured = FALSE
                           /\ req'[p].featured /= Some(TRUE)
                 /\ (/\ req'[p].featured = Some(FALSE)
                      /\ req'[p].category = None
                      /\ req'[p].limit >= Len(coll)) =>
                        \A k \in 1..Len(coll) :
                            coll[k]["name"] \in OmittedNames =>
                                \E i \in 1..Len(resp'[p].items) :
                                    resp'[p].items[i] = MenuItem(coll[k]) ]_vars

\* C6 happens: a listing with featured=false shows the record created from
\* the body without is_featured.
C6_Witness ==
    /\ created = 1
    /\ Listed("c")
    /\ req["c"].featured = Some(FALSE)
    /\ \E i \in 1..Len(resp["c"].items) :
          /\ resp["c"].items[i].name = BodyTest.name
          /\ resp["c"].items[i].is_featured = FALSE

\* C7: a POST /api/menu whose body lacks a required field is answered with a
\* client-error status, whatever the store's state, without a store call, and
\* the collection is the same before and after.
C7_Rejected ==
    [][ \A p \in Callers :
          (/\ Stepped(p)
           /\ req'[p].route = "create"
           /\ ~(Required \subseteq DOMAIN req'[p].body)) =>
             /\ resp'[p].status \in 400..499
             /\ calls'[p] = 0
             /\ coll' = coll
             /\ created' = created ]_vars

\* C7 happens: a body without price was rejected while the collection held
\* records.
C7_Witness ==
    /\ req["c"] = [route |-> "create", body |-> BodyNoPrice]
    /\ resp["c"].status = 422
    /\ Len(coll) > 0

ReadRoutes == {"root", "hello", "list", "test"}

\* C8: no step removes or changes a record: the collection after a step
\* holds, at the same places, every record it held before, so its size never
\* decreases; and a step of a GET route leaves the collection as it is.
C8_NeverRemoved ==
    [][ /\ Len(coll') >= Len(coll)
        /\ \A i \in 1..Len(coll) : coll'[i] = coll[i]
        /\ \A p \in Procs :
              (Stepped(p) /\ req'[p].route \in ReadRoutes) => coll' = coll ]_vars

\* C8 happens: the collection holds the six samples and a created record,
\* and a GET route has been served since.
C8_Witness ==
    /\ Len(coll) = Len(samples) + 1
    /\ Listed("c")
    /\ Len(resp["c"].items) = Len(coll)

\* Number of records of the collection that are sample i.
Copies(i) == Cardinality({k \in 1..Len(coll) : MenuItem(coll[k]) = samples[i]})

BothSeeded ==
    \A p \in Seeders :
        pc[p] = "idle" /\ req[p].route = "seed" /\ resp[p].status = 200
            /\ resp[p].body = "seeded"

\* C9: the count and the inserts of a seed request are not atomic: whenever
\* both overlapping seed requests have been answered "seeded", both observed
\* a count of 0, both report count 6, and the collection holds every sample
\* twice (12 records beside those POST /api/menu created).
C9_BothSeeded ==
    BothSeeded =>
        /\ \A p \in Seeders : existing[p] = 0 /\ resp[p] = Seeded(6)
        /\ \A i \in 1..Len(samples) : Copies(i) = 2
        /\ Len(coll) = 12 + created

\* C9 happens: both seed requests answered "seeded" and 12 records.
C9_Witness ==
    /\ BothSeeded
    /\ Len(coll) = 12
    /\ \A i \in 1..Len(samples) : Copies(i) = 2

AllIdle == \A p \in Procs : pc[p] = "idle"

\* C10 as stated: between requests, nothing created through POST /api/menu,
\* the collection holds none or all six of the samples.
C10_AllOrNothing ==
    (AllIdle /\ created = 0) => Len(coll) \in {0, Len(samples)}

\* C10 amended: a failing GET /api/menu or POST /api/menu made its one store
\* call; a seed request makes one count call and up to six insert calls, and
\* when one of these raises the samples inserted before it stay: nothing
\* created through POST /api/menu, the collection holds the first n samples
\* for some n in 0..6, and n is the number of inserts a failed seed request
\* had made when that number is not 0.
C10_Prefix ==
    /\ \A p \in Procs :
          (pc[p] = "idle" /\ err[p] /= NoErr
              /\ (req[p].route = "list" \/ req[p].route = "create")) =>
                calls[p] = 1
    /\ created = 0 =>
          /\ Len(coll) <= Len(samples)
          /\ \A i \in 1..Len(coll) : MenuItem(coll[i]) = samples[i]
          /\ \A p \in Seeders :
                (pc[p] = "idle" /\ req[p].route = "seed" /\ err[p] /= NoErr
                    /\ calls[p] >= 3) =>
                      Len(coll) = calls[p] - 2

\* C10 happens: a seed request failed at its third insert and left two
\* records.
C10_Witness ==
    /\ AllIdle /\ created = 0
    /\ Len(coll) = 2
    /\ \E p \in Seeders : req[p].route = "seed" /\ err[p] /= NoErr /\ calls[p] = 4

====
